---- MODULE Spec2Model ----
(***************************************************************************)
(* Model of the alumni CSV converter: the transform route (direct and      *)
(* formidable variants) and the normalize route.                           *)
(*                                                                         *)
(* A JavaScript string is a tuple of one-character strings, so that trim() *)
(* and Number() are computed character by character.  The values           *)
(* `undefined` and `null` are the tuples Undefined and Null, which no      *)
(* string equals (their single element is not one character).              *)
(***************************************************************************)
EXTENDS Integers, Sequences, FiniteSets, TLC

\* ------------------------------------------------------------------ bounds
MaxRows == 3
MaxKeys == 2

\* ------------------------------------------------------------- JS values
Undefined == <<"undefined">>
Null == <<"null">>
EmptyStr == <<>>

WhiteSpace == {" ", "\t"}
DigitChars == <<"0", "1", "2", "3", "4", "5", "6", "7", "8", "9">>
Digits == {DigitChars[i] : i \in 1..10}
DigitVal(c) == (CHOOSE i \in 1..10 : DigitChars[i] = c) - 1

RECURSIVE TrimStart(_)
TrimStart(s) ==
  IF s # <<>> /\ Head(s) \in WhiteSpace THEN TrimStart(Tail(s)) ELSE s

RECURSIVE TrimEnd(_)
TrimEnd(s) ==
  IF s # <<>> /\ s[Len(s)] \in WhiteSpace
  THEN TrimEnd(SubSeq(s, 1, Len(s) - 1))
  ELSE s

\* String.prototype.trim
Trim(s) == TrimEnd(TrimStart(s))

\* row.X?.trim()
OptTrim(v) == IF v = Undefined \/ v = Null THEN Undefined ELSE Trim(v)

\* JS truthiness of a string-or-absent value
Truthy(v) == v # Undefined /\ v # Null /\ v # EmptyStr

\* ---------------------------------------------------------- JS Number()
\* A number is [nan, int, frac]: int is the integral part and frac says
\* whether a non-zero fractional part follows.  The strings of this model
\* hold digits, ".", whitespace and letters that start no numeric literal
\* (no sign, exponent, hex prefix or Infinity), so StringToNumber is: the
\* empty string after trimming is 0, a decimal literal is its value, and
\* anything else is NaN.
NaN == [nan |-> TRUE, int |-> 0, frac |-> FALSE]

IsDigits(s) == \A i \in 1..Len(s) : s[i] \in Digits

RECURSIVE DecimalValue(_)
DecimalValue(s) ==
  IF s = <<>> THEN 0
  ELSE 10 * DecimalValue(SubSeq(s, 1, Len(s) - 1)) + DigitVal(s[Len(s)])

ToNumber(v) ==
  IF v = Undefined THEN NaN
  ELSE IF v = Null THEN [nan |-> FALSE, int |-> 0, frac |-> FALSE]
  ELSE
    LET t == Trim(v)
        dots == {i \in 1..Len(t) : t[i] = "."}
    IN IF t = <<>> THEN [nan |-> FALSE, int |-> 0, frac |-> FALSE]
       ELSE IF IsDigits(t)
         THEN [nan |-> FALSE, int |-> DecimalValue(t), frac |-> FALSE]
       ELSE IF Cardinality(dots) = 1
         THEN LET p == CHOOSE i \in dots : TRUE
                  ip == SubSeq(t, 1, p - 1)
                  fp == SubSeq(t, p + 1, Len(t))
              IN IF IsDigits(ip) /\ IsDigits(fp) /\ Len(ip) + Len(fp) > 0
                 THEN [nan |-> FALSE, int |-> DecimalValue(ip),
                       frac |-> \E i \in 1..Len(fp) : fp[i] # "0"]
                 ELSE NaN
       ELSE NaN

IsNaN(n) == n.nan
\* n >= k and n <= k for an integer k; every comparison with NaN is false
NumGe(n, k) == ~n.nan /\ n.int >= k
NumLe(n, k) == ~n.nan /\ (n.int < k \/ (n.int = k /\ ~n.frac))

\* --------------------------------------------------------------- inputs
MinBatchYear == 1964
Years == {2025, 2026}

Kinds == {"transform", "transformFormidable", "normalize"}
Uploads == {"file", "nofile", "malformed"}
Requests == {"r1", "r2"}

CsvRow(ln, fn, ca, ba, ln2, fn2, ca2, ba2) ==
  [LastName |-> ln, FirstName |-> fn, Campus |-> ca, Batch |-> ba,
   last_name |-> ln2, first_name |-> fn2, campus |-> ca2, batch_year |-> ba2]

U == Undefined
Y2004 == <<"2", "0", "0", "4">>

\* Records as Papa.parse(csvString, {header: true}) yields them: every
\* value is a string, and a column the line has no field for is absent.
SampleRows == {
  \* a valid row with padded fields
  CsvRow(<<" ", "A">>, <<"N", " ">>, <<" ", "M", "\t">>, <<" ", "2", "0", "0", "4">>, U, U, U, U),
  \* the same campus under the lower/underscore aliases, first valid year
  CsvRow(U, U, U, U, <<"B">>, <<"K">>, <<"M">>, <<"1", "9", "6", "4">>),
  \* LastName missing
  CsvRow(<<>>, <<"X">>, <<"M">>, Y2004, U, U, U, U),
  \* year below the range
  CsvRow(<<"C">>, <<"A">>, <<"C">>, <<"1", "8", "0", "0">>, U, U, U, U),
  \* the blank record of a trailing newline
  CsvRow(<<>>, U, U, U, U, U, U, U),
  \* whitespace-only LastName
  CsvRow(<<" ">>, <<"A">>, <<"M">>, Y2004, U, U, U, U),
  \* a numeric Batch that is no integer
  CsvRow(<<"D">>, <<"E">>, <<"C">>, <<"2", "0", "0", "4", ".", "5">>, U, U, U, U),
  \* both aliases filled, whitespace-only Campus, Batch at the upper bound
  CsvRow(<<"F">>, <<"G">>, <<" ">>, <<"2", "0", "2", "6">>, <<"H">>, U, <<"Z">>, U),
  \* a Batch that is no number
  CsvRow(<<"P">>, <<"Q">>, <<"C">>, <<"a", "b">>, U, U, U, U)
}

ConcRows == {
  CsvRow(<<"A">>, <<"N">>, <<"M">>, Y2004, U, U, U, U),
  CsvRow(U, U, U, U, <<"B">>, <<"K">>, <<"C">>, Y2004),
  CsvRow(<<>>, U, U, U, U, U, U, U)
}

SeqsUpTo(S, n) == UNION {[1..k -> S] : k \in 0..n}

\* ---------------------------------------------------------------- state
VARIABLES
  currentYear,      \* new Date().getFullYear()
  pc,               \* per request: idle, start, parsed, done
  kind,             \* per request: which route handles it
  upload,           \* per request: what the body carries
  data,             \* per request: parsedData.data
  index,            \* per request: forEach index of the normalize loop
  alumni,           \* per request: Alumni[]
  campuses,         \* per request: Campus[]
  alumniCampus,     \* per request: AlumniCampus[]
  campusSet,        \* per Map instance: entries in insertion order
  validRows,        \* per request: rows kept by the transform filter
  response,         \* per request: the response returned
  gvRow, gvKeys, gvResult   \* one application of getValue

vars == <<currentYear, pc, kind, upload, data, index, alumni, campuses,
          alumniCampus, campusSet, validRows, response, gvRow, gvKeys, gvResult>>

reqVars == <<currentYear, pc, kind, upload, data, index, alumni, campuses,
             alumniCampus, campusSet, validRows, response>>
gvVars == <<gvRow, gvKeys, gvResult>>

NoResponse == [status |-> 0, type |-> "none", error |-> FALSE,
               rows |-> <<>>, alumni |-> <<>>, campus |-> <<>>, alumni_campus |-> <<>>]

\* ------------------------------------------------------- field resolution
Lookup(row, k) == IF k \in DOMAIN row THEN row[k] ELSE Undefined

\* variant: the value found is returned as it is
RECURSIVE getValueNoTrim(_, _)
getValueNoTrim(row, keys) ==
  IF keys = <<>> THEN EmptyStr
  ELSE LET val == Lookup(row, Head(keys))
       IN IF val # Undefined /\ val # Null /\ val # EmptyStr
          THEN val
          ELSE getValueNoTrim(row, Tail(keys))

\* variant: only the first key is consulted
getValueFirstKeyOnly(row, keys) ==
  IF keys = <<>> THEN EmptyStr
  ELSE LET val == Lookup(row, Head(keys))
       IN IF val # Undefined /\ val # Null /\ val # EmptyStr
          THEN Trim(val)
          ELSE EmptyStr

\* variant: the loop does not return at the first match, the last one wins
RECURSIVE getValueLastWins(_, _)
getValueLastWins(row, keys) ==
  IF keys = <<>> THEN EmptyStr
  ELSE LET val == Lookup(row, keys[Len(keys)])
       IN IF val # Undefined /\ val # Null /\ val # EmptyStr
          THEN Trim(val)
          ELSE getValueLastWins(row, SubSeq(keys, 1, Len(keys) - 1))

RECURSIVE getValue(_, _)
getValue(row, keys) ==
  IF keys = <<>> THEN EmptyStr
  ELSE LET val == Lookup(row, Head(keys))
       IN IF val # Undefined /\ val # Null /\ val # EmptyStr
          THEN Trim(val)
          ELSE getValue(row, Tail(keys))

\* ------------------------------------------------------- transform route
\* direct variant: const batchYear = Number(row.Batch)
validRow(row, year) ==
  LET hasRequiredFields ==
        Truthy(row.LastName) /\ Truthy(row.FirstName)
        /\ Truthy(row.Campus) /\ Truthy(row.Batch)
      batchYear == ToNumber(row.Batch)
      validBatch ==
        ~IsNaN(batchYear) /\ NumGe(batchYear, MinBatchYear) /\ NumLe(batchYear, year)
  IN hasRequiredFields /\ validBatch

\* formidable variant: isNaN(row.Batch) and the comparisons coerce row.Batch
validRowFormidable(row, year) ==
  LET hasRequiredFields ==
        Truthy(row.LastName) /\ Truthy(row.FirstName)
        /\ Truthy(row.Campus) /\ Truthy(row.Batch)
      validBatch ==
        ~IsNaN(ToNumber(row.Batch)) /\ NumGe(ToNumber(row.Batch), MinBatchYear)
        /\ NumLe(ToNumber(row.Batch), year)
  IN hasRequiredFields /\ validBatch

transformedRow(row) ==
  [last_name |-> OptTrim(row.LastName), first_name |-> OptTrim(row.FirstName),
   campus |-> OptTrim(row.Campus), batch_year |-> OptTrim(row.Batch)]

transformedData(rows) == [i \in 1..Len(rows) |-> transformedRow(rows[i])]

\* ------------------------------------------------------------- responses
\* variant: the status option is left out, NextResponse.json answers 200
MissingFileResponseNoStatus(k) ==
  [NoResponse EXCEPT !.status = 200, !.type = "json", !.error = TRUE]

MissingFileResponse(k) ==
  [NoResponse EXCEPT !.status = IF k = "transformFormidable" THEN 400 ELSE 404,
                     !.type = "json", !.error = TRUE]

FailureResponse == [NoResponse EXCEPT !.status = 500, !.type = "json", !.error = TRUE]

CsvResponse(rows) == [NoResponse EXCEPT !.status = 200, !.type = "csv", !.rows = rows]

ZipResponse(a, c, ac) ==
  [NoResponse EXCEPT !.status = 200, !.type = "zip",
                     !.alumni = a, !.campus = c, !.alumni_campus = ac]

\* ------------------------------------------------------- normalize route
\* the Map, as its entries in insertion order
MapHas(m, k) == \E i \in 1..Len(m) : m[i].key = k
MapGet(m, k) == m[CHOOSE i \in 1..Len(m) : m[i].key = k].value
MapSize(m) == Len(m)
MapSet(m, k, v) ==
  IF MapHas(m, k)
  THEN [i \in 1..Len(m) |-> IF m[i].key = k THEN [key |-> k, value |-> v] ELSE m[i]]
  ELSE Append(m, [key |-> k, value |-> v])

\* variant: one Map at module level, shared by every invocation
ScopeShared(r) == "r1"

\* the Map instance invocation r works on: created inside POST
Scope(r) == r

alumniIdOf(idx) == idx + 1

\* variant: a known campus is not looked up, it gets a fresh id too
campusIdOfNoReuse(m, campusName) == MapSize(m) + 1

campusIdOf(m, campusName) ==
  IF ~MapHas(m, campusName) THEN MapSize(m) + 1 ELSE MapGet(m, campusName)

\* variant: a Campus entity is pushed for every row
campusesAfterNoDedup(cs, m, campusName) ==
  Append(cs, [campus_id |-> campusIdOf(m, campusName), campus_name |-> campusName])

campusesAfter(cs, m, campusName) ==
  IF ~MapHas(m, campusName)
  THEN Append(cs, [campus_id |-> MapSize(m) + 1, campus_name |-> campusName])
  ELSE cs

campusSetAfter(m, campusName) ==
  IF ~MapHas(m, campusName) THEN MapSet(m, campusName, MapSize(m) + 1) ELSE m

\* the shape of the request state
TypeOK ==
  /\ currentYear \in Years
  /\ pc \in [Requests -> {"idle", "start", "parsed", "done"}]
  /\ kind \in [Requests -> Kinds]
  /\ upload \in [Requests -> Uploads]
  /\ \A r \in Requests :
       /\ index[r] \in 0..Len(data[r])
       /\ Len(alumni[r]) = index[r]
       /\ Len(validRows[r]) <= Len(data[r])
       /\ MapSize(campusSet[r]) <= index[r]
       /\ response[r].type \in {"none", "json", "csv", "zip"}
       /\ (pc[r] = "done") = (response[r].type # "none")

\* --------------------------------------------------------------- actions
\* await req.formData() / form.parse, the file check, the parse
Receive(r) ==
  /\ pc[r] = "start"
  /\ IF upload[r] = "malformed"
     THEN /\ response' = [response EXCEPT ![r] = FailureResponse]
          /\ pc' = [pc EXCEPT ![r] = "done"]
     ELSE IF upload[r] = "nofile"
     THEN /\ response' = [response EXCEPT ![r] = MissingFileResponse(kind[r])]
          /\ pc' = [pc EXCEPT ![r] = "done"]
     ELSE /\ pc' = [pc EXCEPT ![r] = "parsed"]
          /\ UNCHANGED response
  /\ UNCHANGED <<currentYear, kind, upload, data, index, alumni, campuses,
                 alumniCampus, campusSet, validRows>>
  /\ UNCHANGED gvVars

\* filter, map, unparse, respond
Transform(r) ==
  /\ pc[r] = "parsed"
  /\ kind[r] \in {"transform", "transformFormidable"}
  /\ LET Keep(row) == IF kind[r] = "transform"
                      THEN validRow(row, currentYear)
                      ELSE validRowFormidable(row, currentYear)
         kept == SelectSeq(data[r], Keep)
     IN /\ validRows' = [validRows EXCEPT ![r] = kept]
        /\ response' = [response EXCEPT ![r] = CsvResponse(transformedData(kept))]
  /\ pc' = [pc EXCEPT ![r] = "done"]
  /\ UNCHANGED <<currentYear, kind, upload, data, index, alumni, campuses,
                 alumniCampus, campusSet>>
  /\ UNCHANGED gvVars

\* one iteration of data.forEach
NormalizeRow(r) ==
  /\ pc[r] = "parsed"
  /\ kind[r] = "normalize"
  /\ index[r] < Len(data[r])
  /\ LET row == data[r][index[r] + 1]
         lastName == getValue(row, <<"LastName", "last_name">>)
         firstName == getValue(row, <<"FirstName", "first_name">>)
         campusName == getValue(row, <<"Campus", "campus">>)
         batchYear == getValue(row, <<"Batch", "batch_year">>)
         alumniId == alumniIdOf(index[r])
         m == campusSet[Scope(r)]
         campusId == campusIdOf(m, campusName)
     IN /\ campusSet' = [campusSet EXCEPT ![Scope(r)] = campusSetAfter(m, campusName)]
        /\ campuses' = [campuses EXCEPT ![r] = campusesAfter(@, m, campusName)]
        /\ alumni' = [alumni EXCEPT ![r] =
                        Append(@, [alumni_id |-> alumniId, last_name |-> lastName,
                                   first_name |-> firstName, batch_year |-> batchYear])]
        /\ alumniCampus' = [alumniCampus EXCEPT ![r] =
                              Append(@, [alumni_id |-> alumniId, campus_id |-> campusId])]
  /\ index' = [index EXCEPT ![r] = @ + 1]
  /\ UNCHANGED <<currentYear, pc, kind, upload, data, validRows, response>>
  /\ UNCHANGED gvVars

\* unparse the three tables, zip them, respond
NormalizeRespond(r) ==
  /\ pc[r] = "parsed"
  /\ kind[r] = "normalize"
  /\ index[r] = Len(data[r])
  /\ response' = [response EXCEPT ![r] = ZipResponse(alumni[r], campuses[r], alumniCampus[r])]
  /\ pc' = [pc EXCEPT ![r] = "done"]
  /\ UNCHANGED <<currentYear, kind, upload, data, index, alumni, campuses,
                 alumniCampus, campusSet, validRows>>
  /\ UNCHANGED gvVars

\* The client joins alumni.csv and campus.csv back through alumni_campus.csv
\* into rows under the lower/underscore column names.
JoinBack(resp) ==
  [i \in 1..Len(resp.alumni_campus) |->
     LET link == resp.alumni_campus[i]
         a == resp.alumni[CHOOSE j \in 1..Len(resp.alumni) :
                            resp.alumni[j].alumni_id = link.alumni_id]
         c == resp.campus[CHOOSE j \in 1..Len(resp.campus) :
                            resp.campus[j].campus_id = link.campus_id]
     IN CsvRow(U, U, U, U, a.last_name, a.first_name, c.campus_name, a.batch_year)]

Joinable(resp) ==
  \A i \in 1..Len(resp.alumni_campus) :
     /\ \E j \in 1..Len(resp.alumni) :
           resp.alumni[j].alumni_id = resp.alumni_campus[i].alumni_id
     /\ \E j \in 1..Len(resp.campus) :
           resp.campus[j].campus_id = resp.alumni_campus[i].campus_id

\* the client uploads the joined rows to the normalize route again
Resubmit(r, q) ==
  /\ pc[r] = "done"
  /\ response[r].type = "zip"
  /\ Joinable(response[r])
  /\ pc[q] = "idle"
  /\ pc' = [pc EXCEPT ![q] = "start"]
  /\ kind' = [kind EXCEPT ![q] = "normalize"]
  /\ upload' = [upload EXCEPT ![q] = "file"]
  /\ data' = [data EXCEPT ![q] = JoinBack(response[r])]
  /\ UNCHANGED <<currentYear, index, alumni, campuses, alumniCampus, campusSet,
                 validRows, response>>
  /\ UNCHANGED gvVars

\* ------------------------------------------------------- specifications
Pending == <<"pending">>

FreshLocals ==
  /\ index = [r \in Requests |-> 0]
  /\ alumni = [r \in Requests |-> <<>>]
  /\ campuses = [r \in Requests |-> <<>>]
  /\ alumniCampus = [r \in Requests |-> <<>>]
  /\ campusSet = [r \in Requests |-> <<>>]
  /\ validRows = [r \in Requests |-> <<>>]
  /\ response = [r \in Requests |-> NoResponse]

GvIdle ==
  /\ gvRow = [LastName |-> Undefined, last_name |-> Undefined]
  /\ gvKeys = <<>>
  /\ gvResult = Pending

\* one request to any route; the second request slot is free
Init ==
  /\ currentYear \in Years
  /\ \E k \in Kinds, u \in Uploads, d \in SeqsUpTo(SampleRows, MaxRows) :
        /\ u # "file" => d = <<>>
        /\ pc = [r \in Requests |-> IF r = "r1" THEN "start" ELSE "idle"]
        /\ kind = [r \in Requests |-> IF r = "r1" THEN k ELSE "normalize"]
        /\ upload = [r \in Requests |-> IF r = "r1" THEN u ELSE "nofile"]
        /\ data = [r \in Requests |-> IF r = "r1" THEN d ELSE <<>>]
  /\ FreshLocals
  /\ GvIdle

Next ==
  \/ \E r \in Requests : Receive(r)
  \/ \E r \in Requests : Transform(r)
  \/ \E r \in Requests : NormalizeRow(r)
  \/ \E r \in Requests : NormalizeRespond(r)
  \/ \E r, q \in Requests : Resubmit(r, q)

Spec == Init /\ [][Next]_vars

\* two requests to the normalize route, served concurrently
InitConc ==
  /\ currentYear \in Years
  /\ pc = [r \in Requests |-> "start"]
  /\ kind = [r \in Requests |-> "normalize"]
  /\ upload \in [Requests -> {"file", "nofile"}]
  /\ data \in [Requests -> SeqsUpTo(ConcRows, MaxRows)]
  /\ \A r \in Requests : upload[r] # "file" => data[r] = <<>>
  /\ FreshLocals
  /\ GvIdle

NextConc ==
  \/ \E r \in Requests : Receive(r)
  \/ \E r \in Requests : NormalizeRow(r)
  \/ \E r \in Requests : NormalizeRespond(r)

SpecConc == InitConc /\ [][NextConc]_vars

\* one application of getValue to a row and an alias list
GvValues == {Undefined, Null, EmptyStr, <<" ">>, <<"a">>, <<" ", "a", "\t">>, <<"b">>}
GvNames == {"LastName", "last_name", "Campus"}

InitGetValue ==
  /\ currentYear = 2025
  /\ pc = [r \in Requests |-> "idle"]
  /\ kind = [r \in Requests |-> "normalize"]
  /\ upload = [r \in Requests |-> "nofile"]
  /\ data = [r \in Requests |-> <<>>]
  /\ FreshLocals
  /\ gvRow \in [{"LastName", "last_name"} -> GvValues]
  /\ gvKeys \in SeqsUpTo(GvNames, MaxKeys)
  /\ gvResult = Pending

ApplyGetValue ==
  /\ gvResult = Pending
  /\ gvResult' = getValue(gvRow, gvKeys)
  /\ UNCHANGED <<gvRow, gvKeys>>
  /\ UNCHANGED reqVars

NextGetValue == ApplyGetValue

SpecGetValue == InitGetValue /\ [][NextGetValue]_vars

\* ======================================================== the claims
\* vocabulary of the claims, stated without the operators of the routes
Present(v) == v # Undefined /\ v # Null /\ Trim(v) # EmptyStr
IsDecimalInteger(v) ==
  v # Undefined /\ v # Null /\ Trim(v) # EmptyStr /\ IsDigits(Trim(v))
BatchInRange(v, year) ==
  /\ IsDecimalInteger(v)
  /\ DecimalValue(Trim(v)) >= MinBatchYear
  /\ DecimalValue(Trim(v)) <= year

NoPadding(s) ==
  s = EmptyStr \/ (Head(s) \notin WhiteSpace /\ s[Len(s)] \notin WhiteSpace)

\* the first alias, in list order, whose value is not absent, null or ""
Qualifying(row, keys) ==
  {i \in 1..Len(keys) : Lookup(row, keys[i]) \notin {Undefined, Null, EmptyStr}}
ExpectedValue(row, keys) ==
  IF Qualifying(row, keys) = {} THEN EmptyStr
  ELSE LET first == CHOOSE i \in Qualifying(row, keys) :
                       \A j \in Qualifying(row, keys) : i <= j
       IN Trim(Lookup(row, keys[first]))

ExpectedCampus(row) == ExpectedValue(row, <<"Campus", "campus">>)

TransformAccepts(row, year) ==
  /\ Present(row.LastName) /\ Present(row.FirstName) /\ Present(row.Campus)
  /\ Present(row.Batch)
  /\ BatchInRange(row.Batch, year)

NormalizeAccepts(row, year) ==
  /\ ExpectedValue(row, <<"LastName", "last_name">>) # EmptyStr
  /\ ExpectedValue(row, <<"FirstName", "first_name">>) # EmptyStr
  /\ ExpectedCampus(row) # EmptyStr
  /\ BatchInRange(ExpectedValue(row, <<"Batch", "batch_year">>), year)

IsTransform(r) == kind[r] \in {"transform", "transformFormidable"}
ZipDone(r) == pc[r] = "done" /\ response[r].type = "zip"
CsvDone(r) == pc[r] = "done" /\ response[r].type = "csv"

\* C1: the transform keeps a row if and only if its four fields are present
\* and non-empty after trimming and Batch is a decimal integer B with
\* 1964 <= B <= current year.
C1_TransformKeepsExactlyAcceptedRows ==
  \A r \in Requests :
    (IsTransform(r) /\ CsvDone(r)) =>
      LET Accepts(row) == TransformAccepts(row, currentYear)
      IN validRows[r] = SelectSeq(data[r], Accepts)

\* C2: in the normalize output no Alumni, AlumniCampus or Campus entity
\* comes from a row that misses a field or has a Batch out of range: there
\* are no more Alumni and AlumniCampus entities than accepted rows, and
\* every Campus entity names the campus of an accepted row.
C2_NormalizeExcludesRejectedRows ==
  \A r \in Requests :
    (kind[r] = "normalize" /\ ZipDone(r)) =>
      LET acc == {i \in 1..Len(data[r]) : NormalizeAccepts(data[r][i], currentYear)}
      IN /\ Len(response[r].alumni) <= Cardinality(acc)
         /\ Len(response[r].alumni_campus) <= Cardinality(acc)
         /\ \A k \in 1..Len(response[r].campus) :
              \E i \in acc : response[r].campus[k].campus_name = ExpectedCampus(data[r][i])

\* C3: after any prefix of the rows AlumniCampus holds one entity per
\* processed row, and each entity's alumni_id is the id of exactly one
\* Alumni entity and its campus_id the id of exactly one Campus entity.
C3_ReferentialIntegrity ==
  \A r \in Requests :
    /\ Len(alumniCampus[r]) = index[r]
    /\ \A i \in 1..Len(alumniCampus[r]) :
         /\ Cardinality({j \in 1..Len(alumni[r]) :
               alumni[r][j].alumni_id = alumniCampus[r][i].alumni_id}) = 1
         /\ Cardinality({j \in 1..Len(campuses[r]) :
               campuses[r][j].campus_id = alumniCampus[r][i].campus_id}) = 1

C3_Witness ==
  \E r \in Requests :
    /\ index[r] = 3
    /\ Len(campuses[r]) = 2
    /\ alumniCampus[r][1].campus_id = alumniCampus[r][3].campus_id
    /\ alumniCampus[r][1].campus_id # alumniCampus[r][2].campus_id

\* C4: Campus entities are unique by campus_name, and there are as many as
\* distinct trimmed campus names among the processed rows; the rows whose
\* campus resolves to "" share one Campus entity named "".
C4_CampusDeduplication ==
  \A r \in Requests :
    /\ \A i, j \in 1..Len(campuses[r]) :
         campuses[r][i].campus_name = campuses[r][j].campus_name => i = j
    /\ Len(campuses[r]) =
         Cardinality({ExpectedCampus(data[r][i]) : i \in 1..index[r]})

C4_Witness ==
  \E r \in Requests :
    /\ index[r] = 3
    /\ \E i, j \in 1..3 :
         /\ data[r][i] # data[r][j]
         /\ ExpectedCampus(data[r][i]) = EmptyStr
         /\ ExpectedCampus(data[r][j]) = EmptyStr
    /\ Cardinality({k \in 1..Len(campuses[r]) :
                      campuses[r][k].campus_name = EmptyStr}) = 1
    /\ Len(campuses[r]) = 2

\* C5: a campus name gets campus_id 1 + the number of distinct names first
\* seen before it among the rows of its own request, Campus lists the ids
\* 1..n in first-seen order and later rows reuse the id, whatever another
\* request does in between.
FirstSeen(r, i) ==
  CHOOSE j \in 1..i :
    /\ ExpectedCampus(data[r][j]) = ExpectedCampus(data[r][i])
    /\ \A k \in 1..(j - 1) : ExpectedCampus(data[r][k]) # ExpectedCampus(data[r][i])
ExpectedCampusId(r, i) ==
  1 + Cardinality({ExpectedCampus(data[r][k]) : k \in 1..(FirstSeen(r, i) - 1)})

C5_CampusIdByFirstSeenOrder ==
  \A r \in Requests :
    /\ \A i \in 1..index[r] :
         /\ i <= Len(alumniCampus[r])
         /\ alumniCampus[r][i].campus_id = ExpectedCampusId(r, i)
         /\ \E k \in 1..Len(campuses[r]) :
              /\ campuses[r][k].campus_id = ExpectedCampusId(r, i)
              /\ campuses[r][k].campus_name = ExpectedCampus(data[r][i])
    /\ \A k \in 1..Len(campuses[r]) : campuses[r][k].campus_id = k

C5_Witness ==
  /\ \A r \in Requests : index[r] = 3 /\ pc[r] = "parsed"
  /\ ExpectedCampus(data["r1"][1]) # ExpectedCampus(data["r2"][1])
  /\ alumniCampus["r1"][1].campus_id = 1
  /\ alumniCampus["r2"][1].campus_id = 1
  /\ alumniCampus["r1"][2].campus_id = 2
  /\ alumniCampus["r1"][3].campus_id = 1
  /\ alumniCampus["r2"][3].campus_id = 3

\* C6: the Alumni table holds one entity per accepted row, in input order,
\* and the i-th accepted row (0-based) has alumni_id i + 1.
C6_AlumniPerAcceptedRow ==
  \A r \in Requests :
    (kind[r] = "normalize" /\ ZipDone(r)) =>
      LET Accepts(row) == NormalizeAccepts(row, currentYear)
          acc == SelectSeq(data[r], Accepts)
      IN /\ Len(response[r].alumni) = Len(acc)
         /\ \A k \in 1..Len(response[r].alumni) :
              k <= Len(acc) =>
                response[r].alumni[k] =
                  [alumni_id |-> k,
                   last_name |-> ExpectedValue(acc[k], <<"LastName", "last_name">>),
                   first_name |-> ExpectedValue(acc[k], <<"FirstName", "first_name">>),
                   batch_year |-> ExpectedValue(acc[k], <<"Batch", "batch_year">>)]

\* C7: a request without a file field ends with a JSON body that has an
\* error key and a status outside 200..299, and with no CSV or ZIP output.
C7_NoFileIsAnError ==
  \A r \in Requests :
    (pc[r] = "done" /\ upload[r] # "file") =>
      /\ response[r].type = "json"
      /\ response[r].error
      /\ response[r].status \notin 200..299
      /\ response[r].rows = <<>>
      /\ response[r].alumni = <<>>
      /\ response[r].campus = <<>>
      /\ response[r].alumni_campus = <<>>

C7_Witness ==
  \E r \in Requests :
    /\ pc[r] = "done"
    /\ upload[r] = "nofile"
    /\ kind[r] = "transformFormidable"
    /\ response[r].status = 400

\* C8: normalizing the rows joined back from a normalize output, under the
\* lower/underscore column names and in the same order, gives the same
\* Alumni table.
C8_NormalizeIdempotent ==
  \A r, q \in Requests :
    (/\ r # q
     /\ ZipDone(r) /\ ZipDone(q)
     /\ Joinable(response[r])
     /\ data[q] = JoinBack(response[r]))
    => response[q].alumni = response[r].alumni

C8_Witness ==
  /\ ZipDone("r1") /\ ZipDone("r2")
  /\ data["r2"] = JoinBack(response["r1"])
  /\ Len(data["r2"]) = 3
  /\ data["r1"] # data["r2"]
  /\ \E i \in 1..3 : response["r1"].alumni[i].last_name # EmptyStr
  /\ \E i \in 1..3 : data["r1"][i].LastName # Undefined
                     /\ data["r1"][i].LastName # response["r1"].alumni[i].last_name

\* C9: no string field of an output row of either route starts or ends
\* with whitespace.
C9_OutputFieldsTrimmed ==
  \A r \in Requests :
    /\ CsvDone(r) =>
         \A i \in 1..Len(response[r].rows) :
           /\ NoPadding(response[r].rows[i].last_name)
           /\ NoPadding(response[r].rows[i].first_name)
           /\ NoPadding(response[r].rows[i].campus)
           /\ NoPadding(response[r].rows[i].batch_year)
    /\ ZipDone(r) =>
         /\ \A i \in 1..Len(response[r].alumni) :
              /\ NoPadding(response[r].alumni[i].last_name)
              /\ NoPadding(response[r].alumni[i].first_name)
              /\ NoPadding(response[r].alumni[i].batch_year)
         /\ \A i \in 1..Len(response[r].campus) :
              NoPadding(response[r].campus[i].campus_name)

C9_Witness ==
  \E r \in Requests :
    /\ ZipDone(r)
    /\ \E i \in 1..Len(data[r]) :
         /\ data[r][i].LastName # Undefined
         /\ ~NoPadding(data[r][i].LastName)
         /\ ~NoPadding(data[r][i].Campus)
         /\ ~NoPadding(data[r][i].Batch)
         /\ response[r].alumni[i].last_name # EmptyStr

\* C10: getValue returns the trimmed value of the first alias, in list
\* order, whose value is not absent, null or "", and "" when there is none.
C10_GetValueFirstMatch ==
  gvResult # Pending => gvResult = ExpectedValue(gvRow, gvKeys)

C10_Witness ==
  /\ gvResult # Pending
  /\ gvKeys = <<"LastName", "last_name">>
  /\ gvRow.LastName = <<" ", "a", "\t">>
  /\ gvRow.last_name = <<"b">>
  /\ gvResult = <<"a">>
====
